---- MODULE Spec2Model ----
(***************************************************************************)
(* dm-data-attribute-swapper (src/main.py): the column permutation engine  *)
(* swap_data, the configuration check validate_config and the control flow *)
(* of main.                                                                *)
(*                                                                         *)
(* A DataFrame is a sequence of columns [name, vals]; every column holds   *)
(* one value per row.  A YAML value is a record tagged by its type t:      *)
(* "str" and "int" scalars carry their text in v, a "list" its items, a    *)
(* "dict" its keys and the value under columns_to_swap.                    *)
(***************************************************************************)
EXTENDS Naturals, Sequences, FiniteSets, TLC

\* Bounds of the model.
MaxRows == 2
MaxPairs == 2

\* Column names of the data files.
Names == {"a", "b", "temp_b"}

\* How a data file fills its cells: every cell different, one value per
\* column, one value everywhere.  swap_data moves cells and never reads them.
Fills == {"distinct", "by_column", "constant"}

VARIABLES
  pc,               \* where main is
  config,           \* yaml.safe_load(f)
  df0,              \* the DataFrame as swap_data received it
  df,               \* the DataFrame swap_data mutates
  columns_to_swap,  \* swap_data's second argument
  i,                \* position of the for loop in columns_to_swap
  err,              \* the fatal condition main logged, "" when none
  output            \* the tables written to args.output_file, in order

vars == <<pc, config, df0, df, columns_to_swap, i, err, output>>

----------------------------------------------------------------------------
(* YAML values *)

Str(s) == [t |-> "str", v |-> s]
Int(s) == [t |-> "int", v |-> s]
List(items) == [t |-> "list", items |-> items]
Dict(keys, cts) == [t |-> "dict", keys |-> keys, cts |-> cts]
Null == [t |-> "null"]

\* The local variable config before line 104 binds it.
Unbound == [t |-> "unbound"]

\* Sequences over S of length 0..n.
SeqsUpTo(S, n) == UNION {[1..k -> S] : k \in 0..n}

----------------------------------------------------------------------------
(* DataFrame operations *)

Columns(d) == {d[k].name : k \in DOMAIN d}

\* df[name]
GetColumn(d, name) == d[CHOOSE k \in DOMAIN d : d[k].name = name].vals

\* df[name] = vals: an existing column is replaced in place, a new one is
\* appended as the last column.
SetColumn(d, name, vals) ==
  IF name \in Columns(d)
    THEN [k \in DOMAIN d |->
            IF d[k].name = name THEN [name |-> name, vals |-> vals] ELSE d[k]]
    ELSE Append(d, [name |-> name, vals |-> vals])

\* Mutant of DropColumn: the scratch column is never dropped.
DropColumnOmitted(d, name) == d

\* df.drop(columns=[name], inplace=True)
DropColumn(d, name) ==
  LET keep(c) == c.name # name IN SelectSeq(d, keep)

\* Mutant of Perms: sample(frac=1, replace=True) draws rows with replacement.
PermsWithReplacement(n) == [1..n -> 1..n]

\* The orders sample(frac=1, random_state=...) can put n rows in.
Perms(n) == {p \in [1..n -> 1..n] : \A r, s \in 1..n : p[r] = p[s] => r = s}

\* series.sample(frac=1, random_state=seed).reset_index(drop=True): row k of
\* the result is row perm[k] of the series, under a fresh 0..n-1 index.
Sample(vals, perm) == [k \in DOMAIN vals |-> vals[perm[k]]]

NumRows(d) == Len(d[1].vals)

----------------------------------------------------------------------------
(* swap_data *)

\* col in df.columns, for a hashable col; the columns are strings.
InColumns(col, d) == col.t = "str" /\ col.v \in Columns(d)

\* hash(col) raises TypeError inside Index.__contains__ for a list; the
\* `or` does not evaluate its right operand when the left one is true.
Unhashable(col) == col.t \in {"list", "dict"}
MembershipRaises(d, col1, col2) ==
  \/ Unhashable(col1)
  \/ InColumns(col1, d) /\ Unhashable(col2)

MissingColumn(d, col1, col2) ==
  /\ ~MembershipRaises(d, col1, col2)
  /\ (~InColumns(col1, d) \/ ~InColumns(col2, d))

TempCol(col2) == "temp_" \o col2.v

\* Mutant of SwapPair: col1 is overwritten before col2 copies it.
SwapPairCol1First(d, col1, col2, perm) ==
  LET temp_col == TempCol(col2)
      d1 == SetColumn(d, temp_col, Sample(GetColumn(d, col2.v), perm))
      d2 == SetColumn(d1, col1.v, GetColumn(d1, temp_col))
      d3 == SetColumn(d2, col2.v, GetColumn(d2, col1.v))
  IN  DropColumn(d3, temp_col)

\* One iteration of the loop body past the existence check.
SwapPair(d, col1, col2, perm) ==
  LET temp_col == TempCol(col2)
      d1 == SetColumn(d, temp_col, Sample(GetColumn(d, col2.v), perm))
      d2 == SetColumn(d1, col2.v, GetColumn(d1, col1.v))
      d3 == SetColumn(d2, col1.v, GetColumn(d2, temp_col))
  IN  DropColumn(d3, temp_col)

InLoop == pc = "swap_data" /\ i <= Len(columns_to_swap)
Col1 == columns_to_swap[i][1]
Col2 == columns_to_swap[i][2]

\* Mutant of SkipPair: break in place of continue.
SkipPairBreaks ==
  /\ InLoop
  /\ MissingColumn(df, Col1, Col2)
  /\ i' = Len(columns_to_swap) + 1
  /\ UNCHANGED <<pc, config, df0, df, columns_to_swap, err, output>>

\* Lines 65-67: a pair with a missing column is logged and skipped.
SkipPair ==
  /\ InLoop
  /\ MissingColumn(df, Col1, Col2)
  /\ i' = i + 1
  /\ UNCHANGED <<pc, config, df0, df, columns_to_swap, err, output>>

\* Lines 69-80: the pair is swapped under a freshly drawn row order.
ProcessPair ==
  /\ InLoop
  /\ ~MembershipRaises(df, Col1, Col2)
  /\ ~MissingColumn(df, Col1, Col2)
  /\ \E perm \in Perms(NumRows(df)) : df' = SwapPair(df, Col1, Col2, perm)
  /\ i' = i + 1
  /\ UNCHANGED <<pc, config, df0, columns_to_swap, err, output>>

\* Mutant of ReturnDf: return df indented into the loop body.
ReturnInsideLoop ==
  /\ pc = "swap_data"
  /\ pc' = "to_csv"
  /\ UNCHANGED <<config, df0, df, columns_to_swap, i, err, output>>

\* Line 82, once the loop is exhausted.
ReturnDf ==
  /\ pc = "swap_data"
  /\ i > Len(columns_to_swap)
  /\ pc' = "to_csv"
  /\ UNCHANGED <<config, df0, df, columns_to_swap, i, err, output>>

----------------------------------------------------------------------------
(* Inputs of swap_data *)

NameSeqs ==
  {s \in SeqsUpTo(Names, Cardinality(Names)) :
     Len(s) >= 1 /\ \A j, k \in DOMAIN s : s[j] = s[k] => j = k}

Cell(fill, name, r) ==
  CASE fill = "distinct" -> <<name, r>>
    [] fill = "by_column" -> <<name, 0>>
    [] OTHER -> <<"", 0>>

Frame(cols, n, fill) ==
  [k \in DOMAIN cols |->
     [name |-> cols[k], vals |-> [r \in 1..n |-> Cell(fill, cols[k], r)]]]

\* The row counts of the data files.
RowCounts == 0..MaxRows

Tables ==
  {Frame(cols, n, fill) : cols \in NameSeqs, n \in RowCounts, fill \in Fills}

NamePairs == {<<Str(a), Str(b)>> : a, b \in Names}

Init ==
  /\ pc = "swap_data"
  /\ columns_to_swap \in SeqsUpTo(NamePairs, MaxPairs)
  /\ config = Dict({"columns_to_swap"},
                   List([k \in DOMAIN columns_to_swap |-> List(columns_to_swap[k])]))
  /\ df0 \in Tables
  /\ df = df0
  /\ i = 1
  /\ err = ""
  /\ output = <<>>

Next == SkipPair \/ ProcessPair \/ ReturnDf

Spec == Init /\ [][Next]_vars

----------------------------------------------------------------------------
(* validate_config *)

validate_config(c) ==
  IF c.t # "dict" THEN FALSE
  ELSE IF "columns_to_swap" \notin c.keys THEN FALSE
  ELSE IF c.cts.t # "list" THEN FALSE
  ELSE \A k \in DOMAIN c.cts.items :
         ~(c.cts.items[k].t # "list" \/ Len(c.cts.items[k].items) # 2)

----------------------------------------------------------------------------
(* Inputs of main *)

\* What a pair of a configuration file may hold: column names, a number, a
\* nested list.
Elems == {Str("a"), Str("b"), Int("1"), List(<<>>)}

\* Items of columns_to_swap: the two-element lists, and a bare string, a
\* one-element list, a three-element list.
Items ==
  {List(<<e1, e2>>) : e1, e2 \in Elems}
    \cup {Str("a"), List(<<Str("a")>>), List(<<Str("a"), Str("b"), Str("a")>>)}

Configs ==
  {Null, Str("columns_to_swap"), List(<<Str("a"), Str("b")>>)}
    \cup {Dict({}, Null), Dict({"columns"}, Null)}
    \cup {Dict({"columns_to_swap"}, v) : v \in {Null, Str("a"), Dict({}, Null)}}
    \cup {Dict({"columns_to_swap"}, List(items)) : items \in SeqsUpTo(Items, MaxPairs)}

\* The extensions of args.data_file.
Extensions == {".csv", ".xlsx", ".xls", ".txt"}

\* What pd.read_csv and pd.read_excel return for the data files.
DataFiles == {Frame(cols, n, "distinct") : cols \in NameSeqs, n \in RowCounts}

----------------------------------------------------------------------------
(* main *)

\* open(args.config_file) and yaml.safe_load succeed.
LoadConfig ==
  /\ pc = "load_config"
  /\ config' \in Configs
  /\ pc' = "validate"
  /\ UNCHANGED <<df0, df, columns_to_swap, i, err, output>>

\* open(args.config_file) raises FileNotFoundError.
ConfigFileMissing ==
  /\ pc = "load_config"
  /\ err' = "file_not_found"
  /\ pc' = "done"
  /\ UNCHANGED <<config, df0, df, columns_to_swap, i, output>>

\* yaml.safe_load raises.
ConfigUnreadable ==
  /\ pc = "load_config"
  /\ err' = "exception"
  /\ pc' = "done"
  /\ UNCHANGED <<config, df0, df, columns_to_swap, i, output>>

InvalidConfig ==
  /\ pc = "validate"
  /\ ~validate_config(config)
  /\ err' = "invalid_config"
  /\ pc' = "done"
  /\ UNCHANGED <<config, df0, df, columns_to_swap, i, output>>

ValidConfig ==
  /\ pc = "validate"
  /\ validate_config(config)
  /\ pc' = "load_data"
  /\ UNCHANGED <<config, df0, df, columns_to_swap, i, err, output>>

\* The data file is read and swap_data is called on it.
LoadData ==
  /\ pc = "load_data"
  /\ \E file_extension \in Extensions :
       file_extension \in {".csv", ".xlsx", ".xls"}
  /\ df' \in DataFiles
  /\ df0' = df'
  /\ columns_to_swap' =
       [k \in DOMAIN config.cts.items |-> config.cts.items[k].items]
  /\ i' = 1
  /\ pc' = "swap_data"
  /\ UNCHANGED <<config, err, output>>

UnsupportedFormat ==
  /\ pc = "load_data"
  /\ \E file_extension \in Extensions :
       file_extension \notin {".csv", ".xlsx", ".xls"}
  /\ err' = "unsupported_format"
  /\ pc' = "done"
  /\ UNCHANGED <<config, df0, df, columns_to_swap, i, output>>

\* pd.read_csv or pd.read_excel raises FileNotFoundError.
DataFileMissing ==
  /\ pc = "load_data"
  /\ \E file_extension \in Extensions :
       file_extension \in {".csv", ".xlsx", ".xls"}
  /\ err' = "file_not_found"
  /\ pc' = "done"
  /\ UNCHANGED <<config, df0, df, columns_to_swap, i, output>>

\* pd.read_csv raises EmptyDataError, or the reader raises anything else.
DataFileUnreadable ==
  /\ pc = "load_data"
  /\ \E file_extension \in Extensions :
       file_extension \in {".csv", ".xlsx", ".xls"}
  /\ err' \in {"empty_data", "exception"}
  /\ pc' = "done"
  /\ UNCHANGED <<config, df0, df, columns_to_swap, i, output>>

\* The existence check of swap_data raises TypeError.
SwapRaises ==
  /\ InLoop
  /\ MembershipRaises(df, Col1, Col2)
  /\ err' = "exception"
  /\ pc' = "done"
  /\ UNCHANGED <<config, df0, df, columns_to_swap, i, output>>

\* df.to_csv(args.output_file, index=False)
WriteOutput ==
  /\ pc = "to_csv"
  /\ output' = Append(output, df)
  /\ pc' = "done"
  /\ UNCHANGED <<config, df0, df, columns_to_swap, i, err>>

MainInit ==
  /\ pc = "load_config"
  /\ config = Unbound
  /\ df0 = <<>>
  /\ df = <<>>
  /\ columns_to_swap = <<>>
  /\ i = 1
  /\ err = ""
  /\ output = <<>>

MainNext ==
  \/ LoadConfig \/ ConfigFileMissing \/ ConfigUnreadable
  \/ InvalidConfig \/ ValidConfig
  \/ LoadData \/ UnsupportedFormat \/ DataFileMissing \/ DataFileUnreadable
  \/ SkipPair \/ ProcessPair \/ SwapRaises \/ ReturnDf
  \/ WriteOutput

MainSpec == MainInit /\ [][MainNext]_vars

----------------------------------------------------------------------------
(* Vocabulary of the properties *)

Range(s) == {s[k] : k \in DOMAIN s}
Occurrences(s, v) == Cardinality({k \in DOMAIN s : s[k] = v})

\* t holds the values of s, duplicates counted, in some order.
IsPermutationOf(t, s) ==
  /\ Len(t) = Len(s)
  /\ \A v \in Range(s) \cup Range(t) : Occurrences(t, v) = Occurrences(s, v)

ColumnNames(d) == [k \in DOMAIN d |-> d[k].name]
NamedInPairs == {columns_to_swap[k][j].v : k \in DOMAIN columns_to_swap, j \in 1..2}
Returned == pc = "to_csv"
PairAt(k, a, b) == columns_to_swap[k] = <<Str(a), Str(b)>>

\* The step of the loop that processes an actionable pair.
Processes == InLoop /\ InColumns(Col1, df) /\ InColumns(Col2, df) /\ i' = i + 1

\* The shape section 6 of the specification requires of a configuration.
RequiredShape(c) ==
  /\ c.t = "dict"
  /\ "columns_to_swap" \in c.keys
  /\ c.cts.t = "list"
  /\ \A k \in DOMAIN c.cts.items :
       /\ c.cts.items[k].t = "list"
       /\ Len(c.cts.items[k].items) = 2
       /\ \A j \in 1..2 : c.cts.items[k].items[j].t = "str"

\* No input column is named temp_<B> for a configured pair (A, B).
NoScratchClash ==
  \A k \in DOMAIN columns_to_swap : TempCol(columns_to_swap[k][2]) \notin Columns(df0)

\* The one-to-one matchings of n columns.
Matchings(n) == {m \in [1..n -> 1..n] : \A r, s \in 1..n : m[r] = m[s] => r = s}

----------------------------------------------------------------------------
(* C1: for an actionable pair (A, B) of distinct columns, after the pair is
   processed column B equals the pre-pair column A row for row and column A
   is a permutation of the pre-pair column B.  Refuted by the code: with
   A = "temp_b", B = "b" the scratch column is column A itself. *)
C1_PairOutcome ==
  [][Processes /\ Col1 # Col2 =>
       /\ {Col1.v, Col2.v} \subseteq Columns(df')
       /\ GetColumn(df', Col2.v) = GetColumn(df, Col1.v)
       /\ IsPermutationOf(GetColumn(df', Col1.v), GetColumn(df, Col2.v))]_vars

(* C2, as stated: every column named in a configured pair is, in the
   returned table, a permutation of the input column of the same name. *)
C2_SameNamePermutation ==
  Returned =>
    \A n \in NamedInPairs \cap Columns(df0) :
      n \in Columns(df) /\ IsPermutationOf(GetColumn(df, n), GetColumn(df0, n))

(* C2, amended: every column of the returned table that a configured pair
   names is a permutation of some column of the input table, not
   necessarily the one of the same name. *)
C2_PermutationOfSomeInput ==
  Returned =>
    \A n \in NamedInPairs \cap Columns(df) :
      \E m \in Columns(df0) : IsPermutationOf(GetColumn(df, n), GetColumn(df0, m))

C2_Witness ==
  /\ Returned
  /\ \E n \in NamedInPairs \cap Columns(df) :
       /\ ~IsPermutationOf(GetColumn(df, n), GetColumn(df0, n))
       /\ GetColumn(df, n) \notin {GetColumn(df0, m) : m \in Columns(df0)}

(* C3: every input column named in no configured pair is still present in
   the returned table with the same values in the same row order.  Refuted
   by the code: table a, b, temp_b with the pair (a, b) loses temp_b. *)
C3_UnnamedColumnsKept ==
  Returned =>
    \A n \in Columns(df0) \ NamedInPairs :
      n \in Columns(df) /\ GetColumn(df, n) = GetColumn(df0, n)

(* C4: a pair with a name that is not a column of the current table changes
   nothing in the table, and the loop goes on to the next pair. *)
C4_MissingColumnSkip ==
  [][InLoop /\ (~InColumns(Col1, df) \/ ~InColumns(Col2, df)) =>
       /\ df' = df
       /\ pc' = "swap_data"
       /\ i' = i + 1
       /\ columns_to_swap' = columns_to_swap]_vars

C4_Witness ==
  /\ Returned
  /\ Len(columns_to_swap) = 2
  /\ ~InColumns(columns_to_swap[1][1], df0) \/ ~InColumns(columns_to_swap[1][2], df0)
  /\ Columns(df0) \cap {columns_to_swap[1][1].v, columns_to_swap[1][2].v} # {}
  /\ df # df0

(* C5: the output file is written at most once, only after swap_data has gone
   through every configured pair, and never in a run that hit a fatal
   condition. *)
C5_WriteOnceAfterTransform ==
  /\ Len(output) <= 1
  /\ output # <<>> =>
       /\ pc = "done"
       /\ i = Len(columns_to_swap) + 1
       /\ output = <<df>>
  /\ err # "" => output = <<>>

C5_Witness ==
  /\ output # <<>>
  /\ Len(columns_to_swap) = MaxPairs
  /\ df # df0

(* C6: every configuration that is not a mapping with key columns_to_swap
   holding a sequence of two-element sequences of strings is rejected by
   validate_config, and no output is written.  Refuted by the code: the pair
   [1, 1] passes validate_config and the output is written. *)
C6_DeviationIsFatal ==
  config # Unbound /\ ~RequiredShape(config) =>
    /\ pc \in {"validate", "done"}
    /\ pc = "done" => err = "invalid_config"
    /\ output = <<>>

(* C7: every column name of the returned table is a column name of the
   input table: no scratch column is left. *)
C7_NoScratchColumn == Returned => Columns(df) \subseteq Columns(df0)

C7_Witness ==
  /\ Returned
  /\ Len(columns_to_swap) = 2
  /\ ~(NamedInPairs \subseteq Columns(df0))
  /\ df # df0

(* C8: for the pair list [(A,B),(B,C)] over distinct existing columns the
   final C equals the original A row for row and the final B is a
   permutation of the original C; for [(B,C),(A,B)] the final C equals the
   original B.  Refuted by the code: A = "temp_b", B = "b", C = "a". *)
C8_OverlappingPairs ==
  Returned =>
    \A A, B, C \in Columns(df0) :
      Cardinality({A, B, C}) = 3 /\ Len(columns_to_swap) = 2 =>
        /\ PairAt(1, A, B) /\ PairAt(2, B, C) =>
             /\ {B, C} \subseteq Columns(df)
             /\ GetColumn(df, C) = GetColumn(df0, A)
             /\ IsPermutationOf(GetColumn(df, B), GetColumn(df0, C))
        /\ PairAt(1, B, C) /\ PairAt(2, A, B) =>
             /\ C \in Columns(df)
             /\ GetColumn(df, C) = GetColumn(df0, B)

(* C9: when no input column is named temp_<B> for a configured pair (A,B),
   the row count, the column names and their order are unchanged, and the
   output columns match the input columns one to one so that each is a
   permutation of its match. *)
C9_ShapeAndValuesKept ==
  NoScratchClash =>
    /\ \A k \in DOMAIN df : Len(df[k].vals) = NumRows(df0)
    /\ ColumnNames(df) = ColumnNames(df0)
    /\ \E m \in Matchings(Len(df0)) :
         \A k \in DOMAIN df : IsPermutationOf(df[k].vals, df0[m[k]].vals)

C9_Witness ==
  /\ NoScratchClash
  /\ Returned
  /\ Len(df0) = 3
  /\ Len(columns_to_swap) = 2
  /\ PairAt(1, "b", "a") /\ PairAt(2, "temp_b", "a")
  /\ \A k \in DOMAIN df : df[k].vals # df0[k].vals

(* C10: for the pair list [(A,B),(B,A)] over distinct existing columns the
   final A equals the original A row for row and the final B is a
   permutation of the original B.  Refuted by the code: A = "temp_b",
   B = "b". *)
C10_PairThenReverse ==
  Returned =>
    \A A, B \in Columns(df0) :
      A # B /\ Len(columns_to_swap) = 2 /\ PairAt(1, A, B) /\ PairAt(2, B, A) =>
        /\ {A, B} \subseteq Columns(df)
        /\ GetColumn(df, A) = GetColumn(df0, A)
        /\ IsPermutationOf(GetColumn(df, B), GetColumn(df0, B))

====
